---- MODULE Spec2Model ----
(***************************************************************************)
(* Model of the setlist reconciliation core: normalize,                    *)
(* deterministic_match and validate_match (src/matching.py), the LLM       *)
(* matcher with its process-wide cache and retry loop                      *)
(* (src/llm_matching.py) and the orchestrator reconcile                    *)
(* (src/reconciler.py).                                                    *)
(*                                                                         *)
(* Python strings are sequences of one-character strings, so that strip,   *)
(* lower and the two regular-expression substitutions of normalize are     *)
(* computed character by character.  JSON values are tagged records:       *)
(*   [t |-> "str", s |-> chars]   [t |-> "null"]   [t |-> "num", n |-> k]  *)
(*   [t |-> "bool", b |-> b]      [t |-> "list", items |-> <<v, ...>>]     *)
(*   [t |-> "dict", pairs |-> <<[k |-> chars, v |-> value], ...>>]         *)
(* A dict keeps its pairs in insertion order, as a Python dict does.       *)
(***************************************************************************)
EXTENDS Integers, Sequences, FiniteSets, TLC

(***************************************************************************)
(* Bounds of the model.                                                    *)
(***************************************************************************)
MaxTracks == 2        \* longest track list handed to reconcile
MaxPending == 1       \* longest scripted prefix of a client's responses
MaxRetriesArg == 2    \* largest max_retries argument of a direct invocation
MaxInvocations == 2
MaxNameLen == 3         \* longest track name of a direct deterministic_match call
MaxCatalogLen == 2      \* longest catalog of a direct deterministic_match call
MaxTextLen == 4         \* longest text of a direct normalize call
MaxAttempt == 6         \* largest attempt index of a direct _backoff_sleep call
MaxShows == 2           \* most shows in the tour data
MaxSetlist == 2         \* longest setlist of a show
MaxPairs == 2           \* most keys of a response object given to the parser   \* direct llm_fuzzy_match invocations between two clear_cache

(***************************************************************************)
(* Characters and Python string primitives.                                *)
(***************************************************************************)
UpperChars == <<"A","B","C","D","E","F","G","H","I","J","K","L","M",
                "N","O","P","Q","R","S","T","U","V","W","X","Y","Z">>
LowerChars == <<"a","b","c","d","e","f","g","h","i","j","k","l","m",
                "n","o","p","q","r","s","t","u","v","w","x","y","z">>

\* \s of Python's re module on the characters the model uses
IsSpace(c) == c \in {" ", "\t", "\n"}

\* str.lower() on one character
LowerChar(c) ==
    IF \E i \in 1..26 : UpperChars[i] = c
    THEN LowerChars[CHOOSE i \in 1..26 : UpperChars[i] = c]
    ELSE c

\* str.lower()
Lower(s) == [i \in 1..Len(s) |-> LowerChar(s[i])]

\* number of whitespace characters starting at position p
RECURSIVE SpaceRun(_, _)
SpaceRun(s, p) ==
    IF p <= Len(s) /\ IsSpace(s[p]) THEN 1 + SpaceRun(s, p + 1) ELSE 0

\* number of whitespace characters ending at position p (going left)
RECURSIVE SpaceRunBack(_, _)
SpaceRunBack(s, p) ==
    IF p >= 1 /\ IsSpace(s[p]) THEN 1 + SpaceRunBack(s, p - 1) ELSE 0

\* str.strip()
Strip(s) ==
    LET lead == SpaceRun(s, 1)
    IN  IF lead = Len(s) THEN <<>>
        ELSE SubSeq(s, lead + 1, Len(s) - SpaceRunBack(s, Len(s)))

\* "/" in s, and the other one-character containment tests
Contains(s, c) == \E i \in 1..Len(s) : s[i] = c

(***************************************************************************)
(* normalize (src/matching.py).                                            *)
(***************************************************************************)
\* index of the ")" that the lazy .*? of \(.*?\) stops at when the "(" is at
\* position q, or 0 when there is none: "." does not match a newline
RECURSIVE CloseParen(_, _)
CloseParen(s, r) ==
    IF r > Len(s) THEN 0
    ELSE IF s[r] = ")" THEN r
    ELSE IF s[r] = "\n" THEN 0
    ELSE CloseParen(s, r + 1)

\* first position after a match of \s*\(.*?\)\s* that starts at p, or 0
ParenMatchEnd(s, p) ==
    LET q == p + SpaceRun(s, p)
    IN  IF q > Len(s) \/ s[q] # "(" THEN 0
        ELSE LET r == CloseParen(s, q + 1)
             IN  IF r = 0 THEN 0 ELSE r + 1 + SpaceRun(s, r + 1)

\* re.sub(r'\s*\(.*?\)\s*', ' ', s), scanning from position p
RECURSIVE SubParens(_, _)
SubParens(s, p) ==
    IF p > Len(s) THEN <<>>
    ELSE LET e == ParenMatchEnd(s, p)
         IN  IF e > 0 THEN <<" ">> \o SubParens(s, e)
             ELSE <<s[p]>> \o SubParens(s, p + 1)

\* re.sub(r'\s+', ' ', s), scanning from position p
RECURSIVE CollapseSpaces(_, _)
CollapseSpaces(s, p) ==
    IF p > Len(s) THEN <<>>
    ELSE IF IsSpace(s[p]) THEN <<" ">> \o CollapseSpaces(s, p + SpaceRun(s, p))
    ELSE <<s[p]>> \o CollapseSpaces(s, p + 1)

normalize(text) == CollapseSpaces(Strip(Lower(SubParens(text, 1))), 1)

(***************************************************************************)
(* deterministic_match (src/matching.py).  The Python result (None, None)  *)
(* is the record NoMatch; a hit is [catalog_id, confidence].               *)
(***************************************************************************)
S_None == <<"N","o","n","e">>
S_Exact == <<"E","x","a","c","t">>
S_High == <<"H","i","g","h">>
S_Review == <<"R","e","v","i","e","w">>

VALID_CONFIDENCE == {S_Exact, S_High, S_Review, S_None}

NoMatch == [hit |-> FALSE]

\* variant: the raw comparison is tried on all entries before the normalized
\* comparison is tried on any
DeterministicFromRawFirst(track_name, catalog, i) ==
    LET raw == {j \in i..Len(catalog) :
                   Strip(Lower(track_name)) = Strip(Lower(catalog[j].title))}
        nrm == {j \in i..Len(catalog) :
                   normalize(track_name) = normalize(catalog[j].title)}
        first == IF raw # {} THEN CHOOSE j \in raw : \A l \in raw : j <= l
                 ELSE CHOOSE j \in nrm : \A l \in nrm : j <= l
    IN  IF raw = {} /\ nrm = {} THEN NoMatch
        ELSE [hit |-> TRUE, catalog_id |-> catalog[first].catalog_id,
              confidence |-> S_Exact]

\* the loop of deterministic_match from catalog position i on
RECURSIVE DeterministicFrom(_, _, _)
DeterministicFrom(track_name, catalog, i) ==
    IF i > Len(catalog) THEN NoMatch
    ELSE IF Strip(Lower(track_name)) = Strip(Lower(catalog[i].title))
         THEN [hit |-> TRUE, catalog_id |-> catalog[i].catalog_id,
               confidence |-> S_Exact]
    ELSE IF normalize(track_name) = normalize(catalog[i].title)
         THEN [hit |-> TRUE, catalog_id |-> catalog[i].catalog_id,
               confidence |-> S_Exact]
    ELSE DeterministicFrom(track_name, catalog, i + 1)

\* variant: a normalized track name contained in a normalized title matches
deterministic_matchContains(track_name, catalog) ==
    LET n == normalize(track_name)
        inside == {j \in 1..Len(catalog) :
                      \E k \in 0..(Len(normalize(catalog[j].title)) - Len(n)) :
                          SubSeq(normalize(catalog[j].title), k + 1, k + Len(n)) = n}
    IN  IF inside = {} THEN NoMatch
        ELSE [hit |-> TRUE,
              catalog_id |-> catalog[CHOOSE j \in inside :
                                        \A l \in inside : j <= l].catalog_id,
              confidence |-> S_Exact]

deterministic_match(track_name, catalog) ==
    DeterministicFrom(track_name, catalog, 1)

(***************************************************************************)
(* JSON values and Python's str() of them, as validate_match applies it.   *)
(***************************************************************************)
JStr(s) == [t |-> "str", s |-> s]
JNull == [t |-> "null"]
JNum(n) == [t |-> "num", n |-> n]
JBool(b) == [t |-> "bool", b |-> b]
JList(items) == [t |-> "list", items |-> items]
JDict(pairs) == [t |-> "dict", pairs |-> pairs]

K_catalog_id == <<"c","a","t","a","l","o","g","_","i","d">>
K_confidence == <<"c","o","n","f","i","d","e","n","c","e">>
K_reasoning == <<"r","e","a","s","o","n","i","n","g">>
K_matches == <<"m","a","t","c","h","e","s">>
K_results == <<"r","e","s","u","l","t","s">>
K_data == <<"d","a","t","a">>

\* key in d
HasKey(d, key) == \E i \in 1..Len(d.pairs) : d.pairs[i].k = key

\* d[key], for a key that is present
Lookup(d, key) == d.pairs[CHOOSE i \in 1..Len(d.pairs) : d.pairs[i].k = key].v

\* d.get(key, default)
Get(d, key, default) == IF HasKey(d, key) THEN Lookup(d, key) ELSE default

Digits == <<"0","1","2","3","4","5","6","7","8","9">>

\* str() of a non-negative integer
RECURSIVE NatStr(_)
NatStr(n) ==
    IF n < 10 THEN <<Digits[n + 1]>>
    ELSE NatStr(n \div 10) \o <<Digits[(n % 10) + 1]>>

\* repr() of a JSON value (strings of the model hold no quote or backslash)
RECURSIVE PyRepr(_)
RECURSIVE ReprItems(_, _)
RECURSIVE ReprPairs(_, _)
PyRepr(v) ==
    CASE v.t = "str" -> <<"'">> \o v.s \o <<"'">>
      [] v.t = "null" -> S_None
      [] v.t = "bool" -> IF v.b THEN <<"T","r","u","e">>
                         ELSE <<"F","a","l","s","e">>
      [] v.t = "num" -> NatStr(v.n)
      [] v.t = "list" -> <<"[">> \o ReprItems(v.items, 1) \o <<"]">>
      [] v.t = "dict" -> <<"{">> \o ReprPairs(v.pairs, 1) \o <<"}">>
ReprItems(items, i) ==
    IF i > Len(items) THEN <<>>
    ELSE (IF i > 1 THEN <<",", " ">> ELSE <<>>)
         \o PyRepr(items[i]) \o ReprItems(items, i + 1)
ReprPairs(pairs, i) ==
    IF i > Len(pairs) THEN <<>>
    ELSE (IF i > 1 THEN <<",", " ">> ELSE <<>>)
         \o PyRepr(JStr(pairs[i].k)) \o <<":", " ">> \o PyRepr(pairs[i].v)
         \o ReprPairs(pairs, i + 1)

\* str(v)
PyStr(v) == IF v.t = "str" THEN v.s ELSE PyRepr(v)

(***************************************************************************)
(* validate_match (src/matching.py).  match.get raises AttributeError when *)
(* match is not a dict; that outcome is the record Raised.                 *)
(***************************************************************************)
Raised == [exc |-> TRUE]
IsRaised(r) == "exc" \in DOMAIN r

MatchCandidate(catalog_id, confidence) ==
    [catalog_id |-> catalog_id, confidence |-> confidence]

\* variant: a recognized confidence is taken down by one level
ConfidenceDemoted(confidence) ==
    IF confidence \notin VALID_CONFIDENCE THEN S_Review
    ELSE IF confidence = S_Exact THEN S_High
    ELSE IF confidence = S_High THEN S_Review
    ELSE confidence

\* lines 84-89: a confidence outside the vocabulary becomes "Review"
Confidence(confidence) ==
    IF confidence \notin VALID_CONFIDENCE THEN S_Review ELSE confidence

\* variant: an unknown id is reset but its confidence is kept
ValidateFieldsKeepConfidence(catalog_id, confidence, catalog_ids) ==
    IF confidence \notin VALID_CONFIDENCE
    THEN MatchCandidate(IF catalog_id # S_None /\ catalog_id \notin catalog_ids
                        THEN S_None ELSE catalog_id, S_Review)
    ELSE MatchCandidate(IF catalog_id # S_None /\ catalog_id \notin catalog_ids
                        THEN S_None ELSE catalog_id, confidence)

\* lines 76-91, on the two extracted and trimmed fields
ValidateFields(catalog_id, confidence, catalog_ids) ==
    IF catalog_id # S_None /\ catalog_id \notin catalog_ids
    THEN MatchCandidate(S_None, S_None)
    ELSE MatchCandidate(catalog_id, Confidence(confidence))

\* variant: the two fields are not trimmed
validate_matchNoStrip(match, catalog_ids) ==
    IF match.t # "dict" THEN Raised
    ELSE ValidateFields(PyStr(Get(match, K_catalog_id, JStr(S_None))),
                        PyStr(Get(match, K_confidence, JStr(S_None))),
                        catalog_ids)

validate_match(match, catalog_ids) ==
    IF match.t # "dict" THEN Raised
    ELSE ValidateFields(Strip(PyStr(Get(match, K_catalog_id, JStr(S_None)))),
                        Strip(PyStr(Get(match, K_confidence, JStr(S_None)))),
                        catalog_ids)

\* line 91: the dict validate_match returns, as a value it can be given again
AsMatch(candidate) ==
    JDict(<<[k |-> K_catalog_id, v |-> JStr(candidate.catalog_id)],
            [k |-> K_confidence, v |-> JStr(candidate.confidence)]>>)

(***************************************************************************)
(* _parse_llm_response (src/llm_matching.py), applied to the value that    *)
(* json.loads returned.                                                    *)
(***************************************************************************)
\* the first of the given keys that is present in d with a list value, or 0
FirstListKey(d, keys) ==
    LET hits == {i \in 1..Len(keys) :
                    HasKey(d, keys[i]) /\ Lookup(d, keys[i]).t = "list"}
    IN  IF hits = {} THEN 0 ELSE CHOOSE i \in hits : \A j \in hits : i <= j

\* the first pair of d whose value is a list, or 0
FirstListValue(d) ==
    LET hits == {i \in 1..Len(d.pairs) : d.pairs[i].v.t = "list"}
    IN  IF hits = {} THEN 0 ELSE CHOOSE i \in hits : \A j \in hits : i <= j

PreferredKeys == <<K_matches, K_results, K_data>>

\* variant: a mapping with "catalog_id" is taken as a single match before the
\* keys "matches", "results", "data" are looked at
parse_llm_responseSingleFirst(parsed) ==
    IF parsed.t = "list" THEN parsed.items
    ELSE IF parsed.t = "dict" THEN
        LET k == FirstListKey(parsed, PreferredKeys)
            l == FirstListValue(parsed)
        IN  IF HasKey(parsed, K_catalog_id) THEN <<parsed>>
            ELSE IF k > 0 THEN Lookup(parsed, PreferredKeys[k]).items
            ELSE IF l > 0 THEN parsed.pairs[l].v.items
            ELSE <<>>
    ELSE <<>>

parse_llm_response(parsed) ==
    IF parsed.t = "list" THEN parsed.items
    ELSE IF parsed.t = "dict" THEN
        LET k == FirstListKey(parsed, PreferredKeys)
            l == FirstListValue(parsed)
        IN  IF k > 0 THEN Lookup(parsed, PreferredKeys[k]).items
            ELSE IF HasKey(parsed, K_catalog_id) THEN <<parsed>>
            ELSE IF l > 0 THEN parsed.pairs[l].v.items
            ELSE <<>>
    ELSE <<>>

(***************************************************************************)
(* Program constants (src/config.py).                                      *)
(***************************************************************************)
MAX_RETRIES == 3
BACKOFF_BASE == 2           \* seconds: the base of the exponential
BACKOFF_MAX == 30           \* seconds: the cap of one sleep
RATE_LIMIT_DELAY == 100     \* milliseconds: the default "0.1" seconds

(***************************************************************************)
(* The external client.  One response of client.chat.completions.create is *)
(*   [kind |-> "raise"]          the call raises an exception              *)
(*   [kind |-> "invalid_json"]   the text is not valid JSON                *)
(*   [kind |-> "json", value |-> v]   the text parses to the JSON value v  *)
(* A client behaviour is [pending |-> <<r1, ..>>, steady |-> r]: the calls *)
(* of one invocation get r1, .. in order and r for every further call.     *)
(***************************************************************************)
RespRaise == [kind |-> "raise"]
RespInvalidJson == [kind |-> "invalid_json"]
RespJson(v) == [kind |-> "json", value |-> v]

\* the response to call number n (from 0) of an invocation
ResponseAt(client, n) ==
    IF n < Len(client.pending) THEN client.pending[n + 1] ELSE client.steady

(***************************************************************************)
(* llm_fuzzy_match (src/llm_matching.py).                                  *)
(***************************************************************************)
\* variant: the key is taken from the raw name, not the normalized one
cache_keyRaw(track_name) == track_name

\* sha256 of the normalized name; the hash is taken to be injective
cache_key(track_name) == normalize(track_name)

Event(op, arg) == [op |-> op, arg |-> arg]

\* variant: the entry put in place of an empty parse result asks for review
NoMatchDictReview ==
    JDict(<<[k |-> K_catalog_id, v |-> JStr(S_None)],
            [k |-> K_confidence, v |-> JStr(S_Review)],
            [k |-> K_reasoning, v |-> JStr(<<"U">>)]>>)

NoMatchDict ==
    JDict(<<[k |-> K_catalog_id, v |-> JStr(S_None)],
            [k |-> K_confidence, v |-> JStr(S_None)],
            [k |-> K_reasoning, v |-> JStr(<<"U">>)]>>)

\* variant: the fallback guesses an id and asks for review
FallbackGuess == <<MatchCandidate(<<"C","1">>, S_Review)>>

Fallback == <<MatchCandidate(S_None, S_None)>>

CatalogIds(catalog) == {catalog[i].catalog_id : i \in 1..Len(catalog)}

\* variant: an empty parse result is not replaced by the no-match entry
AttemptResultNoSubstitute(resp, catalog_ids) ==
    IF resp.kind # "json" THEN [ok |-> FALSE, validated |-> <<>>]
    ELSE
    LET matches == parse_llm_response(resp.value)
        validated == [i \in 1..Len(matches) |->
                         validate_match(matches[i], catalog_ids)]
    IN  IF \E i \in 1..Len(matches) : IsRaised(validated[i])
        THEN [ok |-> FALSE, validated |-> <<>>]
        ELSE [ok |-> TRUE, validated |-> validated]

\* the body of the try block for one response: [ok |-> FALSE] when it raises
\* (the call itself, json.loads, or validate_match), else the validated list
AttemptResult(resp, catalog_ids) ==
    IF resp.kind # "json" THEN [ok |-> FALSE, validated |-> <<>>]
    ELSE
    LET parsed == parse_llm_response(resp.value)
        matches == IF Len(parsed) = 0 THEN <<NoMatchDict>> ELSE parsed
        validated == [i \in 1..Len(matches) |->
                         validate_match(matches[i], catalog_ids)]
    IN  IF \E i \in 1..Len(matches) : IsRaised(validated[i])
        THEN [ok |-> FALSE, validated |-> <<>>]
        ELSE [ok |-> TRUE, validated |-> validated]

\* variant: a backoff sleep follows the final failed attempt as well
BackoffEventsAlways(attempt, max_retries) ==
    <<Event("backoff_sleep", attempt)>>

\* lines 206-207: if attempt < max_retries: _backoff_sleep(attempt)
BackoffEvents(attempt, max_retries) ==
    IF attempt < max_retries THEN <<Event("backoff_sleep", attempt)>> ELSE <<>>

\* variant: the loop makes one attempt too many (range(max_retries + 2))
RECURSIVE RetryLoopOneMore(_, _, _, _, _)
RetryLoopOneMore(attempt, max_retries, client, catalog_ids, events) ==
    IF attempt > max_retries + 1
    THEN [ok |-> FALSE, validated |-> <<>>, events |-> events]
    ELSE
    LET r == AttemptResult(ResponseAt(client, attempt), catalog_ids)
        called == Append(events, Event("create", attempt))
    IN  IF r.ok
        THEN [ok |-> TRUE, validated |-> r.validated,
              events |-> Append(called, Event("succeeded", attempt))]
        ELSE RetryLoopOneMore(attempt + 1, max_retries, client, catalog_ids,
                 Append(called, Event("failed", attempt))
                 \o BackoffEvents(attempt, max_retries + 1))

\* for attempt in range(max_retries + 1), from the given attempt on
RECURSIVE RetryLoop(_, _, _, _, _)
RetryLoop(attempt, max_retries, client, catalog_ids, events) ==
    IF attempt > max_retries
    THEN [ok |-> FALSE, validated |-> <<>>, events |-> events]
    ELSE
    LET r == AttemptResult(ResponseAt(client, attempt), catalog_ids)
        called == Append(events, Event("create", attempt))
    IN  IF r.ok
        THEN [ok |-> TRUE, validated |-> r.validated,
              events |-> Append(called, Event("succeeded", attempt))]
        ELSE RetryLoop(attempt + 1, max_retries, client, catalog_ids,
                 Append(called, Event("failed", attempt))
                 \o BackoffEvents(attempt, max_retries))

\* variant: the fallback after exhaustion is returned without being stored
CachePutNoFallback(cache, key, value) ==
    IF value = <<MatchCandidate(S_None, S_None)>> THEN cache
    ELSE [k \in DOMAIN cache \cup {key} |-> IF k = key THEN value ELSE cache[k]]

\* cache[key] = value
CachePut(cache, key, value) ==
    [k \in DOMAIN cache \cup {key} |-> IF k = key THEN value ELSE cache[k]]

ApiCalls(events) == Cardinality({i \in 1..Len(events) : events[i].op = "create"})

\* variant: the store replaces the whole cache by the one new entry
StoreAndReturnAlone(cache, key, loop) ==
    [ret |-> IF loop.ok THEN loop.validated ELSE Fallback,
     cache |-> CachePut([k \in {} |-> <<>>], key,
                        IF loop.ok THEN loop.validated ELSE Fallback),
     events |-> Append(loop.events, Event("cache_store", 0)),
     cache_hit |-> FALSE, exhausted |-> ~loop.ok]

\* lines 195-197 and 209-215: the result of the loop is stored and returned
StoreAndReturn(cache, key, loop) ==
    [ret |-> IF loop.ok THEN loop.validated ELSE Fallback,
     cache |-> CachePut(cache, key, IF loop.ok THEN loop.validated ELSE Fallback),
     events |-> Append(loop.events, Event("cache_store", 0)),
     cache_hit |-> FALSE, exhausted |-> ~loop.ok]

\* variant: the rate-limit pause is made before the cache is looked at
MatchWithKeyPauseFirst(key, catalog, client, max_retries, cache) ==
    IF key \in DOMAIN cache
    THEN [ret |-> cache[key], cache |-> cache,
          events |-> <<Event("rate_limit_sleep", RATE_LIMIT_DELAY)>>,
          cache_hit |-> TRUE, exhausted |-> FALSE]
    ELSE StoreAndReturn(cache, key,
             RetryLoop(0, max_retries, client, CatalogIds(catalog),
                       <<Event("rate_limit_sleep", RATE_LIMIT_DELAY)>>))

\* lines 161-215, with the cache key computed
MatchWithKey(key, catalog, client, max_retries, cache) ==
    IF key \in DOMAIN cache
    THEN [ret |-> cache[key], cache |-> cache, events |-> <<>>,
          cache_hit |-> TRUE, exhausted |-> FALSE]
    ELSE StoreAndReturn(cache, key,
             RetryLoop(0, max_retries, client, CatalogIds(catalog),
                       IF RATE_LIMIT_DELAY > 0
                       THEN <<Event("rate_limit_sleep", RATE_LIMIT_DELAY)>>
                       ELSE <<>>))

llm_fuzzy_match(track_name, catalog, client, max_retries, cache) ==
    MatchWithKey(cache_key(track_name), catalog, client, max_retries, cache)

(***************************************************************************)
(* reconcile (src/reconciler.py).                                          *)
(***************************************************************************)
\* _result_row
result_row(track, catalog_id, confidence, catalog) ==
    LET hits == {i \in 1..Len(catalog) : catalog[i].catalog_id = catalog_id}
        matched_title ==
            IF catalog_id # <<>> /\ catalog_id # S_None /\ hits # {}
            THEN catalog[CHOOSE i \in hits : \A j \in hits : i <= j].title
            ELSE <<>>
    IN  [show_date |-> track.show_date,
         venue_name |-> track.venue_name,
         setlist_track_name |-> track.setlist_track_name,
         matched_catalog_id |-> catalog_id,
         matched_catalog_title |-> matched_title,
         match_confidence |-> confidence]

\* variant: no track is treated as a medley
IsMedleyNever(track_name) == FALSE

\* "/" in track_name
IsMedley(track_name) == Contains(track_name, "/")

\* variant: a deterministic result never counts as a hit
DetHitNever(det) == FALSE

\* if catalog_id: (line 79) on the result of deterministic_match
DetHit(det) == det.hit /\ det.catalog_id # <<>>

\* the rows appended for the candidates returned by llm_fuzzy_match
MatchRows(track, matches, catalog) ==
    [i \in 1..Len(matches) |->
        result_row(track, matches[i].catalog_id, matches[i].confidence, catalog)]

\* the client reconcile works with: the argument, or one built from the
\* OPENAI_API_KEY environment variable when the argument is None
EffectiveClient(client_arg, api_key_set) ==
    IF client_arg # "None" THEN client_arg
    ELSE IF api_key_set THEN "OpenAI" ELSE "None"

\* what an iteration that did not invoke llm_fuzzy_match leaves behind
StepWithoutLlm(route, rows, cache) ==
    [route |-> route, rows |-> rows, llm_invocations |-> 0, api_calls |-> 0,
     exhausted |-> FALSE, ret |-> <<>>, cache |-> cache, events |-> <<>>]

\* variant: reconcile invokes llm_fuzzy_match again when it got the fallback
StepWithLlmAgain(route, track, catalog, llm) ==
    [route |-> route, rows |-> MatchRows(track, llm.ret, catalog),
     llm_invocations |-> IF llm.ret = Fallback THEN 2 ELSE 1,
     api_calls |-> ApiCalls(llm.events),
     exhausted |-> llm.exhausted, ret |-> llm.ret, cache |-> llm.cache,
     events |-> llm.events]

\* what an iteration that invoked llm_fuzzy_match (result llm) leaves behind
StepWithLlm(route, track, catalog, llm) ==
    [route |-> route, rows |-> MatchRows(track, llm.ret, catalog),
     llm_invocations |-> 1, api_calls |-> ApiCalls(llm.events),
     exhausted |-> llm.exhausted, ret |-> llm.ret, cache |-> llm.cache,
     events |-> llm.events]

\* lines 76-101: stage 1 on the result det of deterministic_match, then stage 2
StagesStep(track, catalog, client, behaviour, cache, det) ==
    IF DetHit(det)
    THEN StepWithoutLlm("deterministic",
             <<result_row(track, det.catalog_id, det.confidence, catalog)>>, cache)
    ELSE IF client = "None"
    THEN StepWithoutLlm("skipped",
             <<result_row(track, S_None, S_None, catalog)>>, cache)
    ELSE StepWithLlm("llm", track, catalog,
             llm_fuzzy_match(track.setlist_track_name, catalog, behaviour,
                             MAX_RETRIES, cache))

\* One iteration of the loop over tracks.  `client` tells whether a client is
\* at hand, `behaviour` is what that client answers during this iteration.
\* The result holds the rows appended, the cache afterwards and a log of what
\* the iteration did.
TrackStep(track, catalog, client, behaviour, cache) ==
    IF IsMedley(track.setlist_track_name)
    THEN IF client = "None"
         THEN StepWithoutLlm("medley_skipped",
                  <<result_row(track, S_None, S_None, catalog)>>, cache)
         ELSE StepWithLlm("medley_llm", track, catalog,
                  llm_fuzzy_match(track.setlist_track_name, catalog, behaviour,
                                  MAX_RETRIES, cache))
    ELSE StagesStep(track, catalog, client, behaviour, cache,
                    deterministic_match(track.setlist_track_name, catalog))

(***************************************************************************)
(* Inputs of the model.                                                    *)
(***************************************************************************)
Id1 == <<"C","1">>
Id2 == <<"C","2">>
Id3 == <<"C","3">>

N_exact == <<"a","b">>                      \* equals title "Ab" ignoring case
N_suffix == <<"A","b"," ","(","x",")">>     \* normalizes to "ab"
N_miss == <<"b">>                           \* no title of either catalog
N_variant == <<"B"," ","(","x",")">>        \* normalizes to "b" as well
N_medley == <<"a","/","b">>                 \* a title of CatalogA

Entry(id, title) ==
    [catalog_id |-> id, title |-> title, writers |-> "w",
     controlled_percentage |-> "100"]

CatalogA == <<Entry(Id1, <<"A","b">>), Entry(Id2, N_medley)>>
CatalogB == <<Entry(Id3, <<"A","b">>)>>
Catalogs == {CatalogA, CatalogB}

Track(date, venue, name) ==
    [show_date |-> date, venue_name |-> venue, city |-> "c",
     setlist_track_name |-> name]

Tracks == {Track("d1", "v1", N_exact), Track("d1", "v1", N_suffix),
           Track("d1", "v1", N_miss), Track("d2", "v2", N_variant),
           Track("d2", "v2", N_medley)}

TrackLists == UNION {[1..n -> Tracks] : n \in 0..MaxTracks}

Match(id, conf) ==
    JDict(<<[k |-> K_catalog_id, v |-> JStr(id)],
            [k |-> K_confidence, v |-> JStr(conf)],
            [k |-> K_reasoning, v |-> JStr(<<"r">>)]>>)

\* {"matches": [{C1, High}]}
R_one == RespJson(JDict(<<[k |-> K_matches, v |-> JList(<<Match(Id1, S_High)>>)]>>))
\* {"results": [{C2, "Maybe"}, {" C3 ", High}]}
R_two == RespJson(JDict(<<[k |-> K_results, v |->
             JList(<<Match(Id2, <<"M","a","y","b","e">>),
                     Match(<<" ","C","3"," ">>, S_High)>>)]>>))
\* {"foo": "bar"}
R_empty == RespJson(JDict(<<[k |-> <<"f","o","o">>, v |-> JStr(<<"b","a","r">>)]>>))
\* ["x"]
R_strings == RespJson(JList(<<JStr(<<"x">>)>>))

SuccessResponses == {R_one, R_two, R_empty}
FailureResponses == {RespRaise, RespInvalidJson, R_strings}
Responses == SuccessResponses \cup FailureResponses

\* A response after a successful one is never asked for, so the scripted
\* prefix of a behaviour holds failures only.
Behaviours ==
    {[pending |-> p, steady |-> r] :
        p \in UNION {[1..n -> FailureResponses] : n \in 0..MaxPending},
        r \in Responses}

\* a client that fails on every call
AlwaysFails(b) ==
    /\ b.steady \in FailureResponses
    /\ \A i \in 1..Len(b.pending) : b.pending[i] \in FailureResponses

\* the normalized names of the model, which index the per-name statistics
Keys == {normalize(t.setlist_track_name) : t \in Tracks}
EmptyCache == [k \in {} |-> <<>>]

(***************************************************************************)
(* State.                                                                  *)
(***************************************************************************)
VARIABLES
    match_cache,      \* _match_cache: key -> validated candidates
    pc,               \* "idle", or "running" inside reconcile
    client_arg,       \* the client argument of reconcile: "None" or "client"
    api_key_set,      \* whether OPENAI_API_KEY is set in the environment
    client,           \* the local variable client after lines 36-43
    tracks,           \* the tracks argument
    catalog,          \* the catalog argument
    done,             \* number of tracks the loop has processed
    results,          \* the list results
    llm_calls,        \* the local counter llm_calls
    track_log,        \* per processed track: what the iteration did
    inv,              \* the last direct llm_fuzzy_match invocation
    inv_count,        \* direct invocations since the cache was last empty
    key_stats,        \* per key: invocations, external calls, first result
    validate_call,    \* a direct call of validate_match: arguments, result
    deterministic_call, \* a direct call of deterministic_match
    normalize_call,   \* a direct call of normalize and of normalize on its result
    backoff_call,     \* a direct call of _backoff_sleep: attempt, jitter, sleep
    parse_call,       \* a direct call of _parse_llm_response: text, outcome
    tour_call         \* tour data on its way through validation and flattening

reconcile_vars == <<pc, client_arg, api_key_set, client, tracks, catalog, done,
                    results, llm_calls, track_log>>
llm_vars == <<inv, inv_count, key_stats>>
pure_vars == <<validate_call, deterministic_call, normalize_call, backoff_call,
               parse_call, tour_call>>
vars == <<match_cache, reconcile_vars, llm_vars, pure_vars>>

NoInvocation ==
    [track_name |-> <<>>, catalog |-> <<>>, max_retries |-> 0, ret |-> <<>>,
     events |-> <<>>, cache_hit |-> FALSE, exhausted |-> FALSE,
     answer |-> <<>>]

NoStats == [invocations |-> 0, api_calls |-> 0, first_ret |-> <<>>,
            first_max_retries |-> 0, all_failing |-> TRUE]

\* no direct call of a pure function is under way
NoValidateCall == [match |-> JNull, known_catalog_ids |-> {}, result |-> <<>>]
NoDeterministicCall == [track_name |-> <<>>, catalog |-> <<>>, result |-> <<>>]
NoNormalizeCall == [text |-> <<>>, results |-> <<>>]
NoBackoffCall == [attempt |-> 0, jitter |-> 0, slept |-> <<>>]
NoParseCall == [raw |-> RespRaise, outcome |-> <<>>]
NoTourCall == [data |-> JNull, validation |-> "none", flattened |-> FALSE,
               tracks |-> <<>>]

\* the module state after import: empty cache, nothing running
ModuleInit ==
    /\ match_cache = EmptyCache
    /\ pc = "idle"
    /\ client_arg = "None"
    /\ api_key_set = FALSE
    /\ client = "None"
    /\ tracks = <<>>
    /\ catalog = <<>>
    /\ done = 0
    /\ results = <<>>
    /\ llm_calls = 0
    /\ track_log = <<>>
    /\ inv = NoInvocation
    /\ inv_count = 0
    /\ key_stats = [k \in Keys |-> NoStats]

\* no direct call of _backoff_sleep, _parse_llm_response or the ingestion
OthersIdle ==
    /\ backoff_call = NoBackoffCall
    /\ parse_call = NoParseCall
    /\ tour_call = NoTourCall

Init ==
    /\ ModuleInit
    /\ validate_call = NoValidateCall
    /\ deterministic_call = NoDeterministicCall
    /\ normalize_call = NoNormalizeCall
    /\ OthersIdle

(***************************************************************************)
(* Actions of reconcile.                                                   *)
(***************************************************************************)
\* the call and lines 36-47: the client is resolved, the locals are set up
ReconcileStart ==
    /\ pc = "idle"
    /\ \E t \in TrackLists, c \in Catalogs, a \in {"None", "client"},
          k \in BOOLEAN :
        /\ tracks' = t
        /\ catalog' = c
        /\ client_arg' = a
        /\ api_key_set' = k
        /\ client' = EffectiveClient(a, k)
    /\ pc' = "running"
    /\ done' = 0
    /\ results' = <<>>
    /\ llm_calls' = 0
    /\ track_log' = <<>>
    /\ UNCHANGED <<match_cache, llm_vars, pure_vars>>

\* whether the iteration calls the client at all, which does not depend on
\* what the client would answer
CallsClient(track, cat, cl, cache) ==
    TrackStep(track, cat, cl, [pending |-> <<>>, steady |-> RespRaise],
              cache).api_calls > 0

\* the behaviours that make a difference to the iteration
Consulted(track, cat, cl, cache) ==
    IF CallsClient(track, cat, cl, cache) THEN Behaviours
    ELSE {[pending |-> <<>>, steady |-> RespRaise]}

\* variant: the rows of an iteration are put in front of the earlier rows
ApplyStepPrepend(step) ==
    /\ results' = step.rows \o results
    /\ match_cache' = step.cache
    /\ llm_calls' = llm_calls + step.llm_invocations
    /\ track_log' = Append(track_log,
           [route |-> step.route, llm_invocations |-> step.llm_invocations,
            api_calls |-> step.api_calls, ret |-> step.ret,
            exhausted |-> step.exhausted, events |-> step.events,
            cache_before |-> match_cache,
            first_row |-> Len(results) + 1, rows |-> Len(step.rows)])

\* the effect of one iteration whose outcome is step
ApplyStep(step) ==
    /\ results' = results \o step.rows
    /\ match_cache' = step.cache
    /\ llm_calls' = llm_calls + step.llm_invocations
    /\ track_log' = Append(track_log,
           [route |-> step.route, llm_invocations |-> step.llm_invocations,
            api_calls |-> step.api_calls, ret |-> step.ret,
            exhausted |-> step.exhausted, events |-> step.events,
            cache_before |-> match_cache,
            first_row |-> Len(results) + 1, rows |-> Len(step.rows)])

\* variant: an iteration takes the first entry off the catalog
ReconcileTrackConsumes ==
    /\ pc = "running"
    /\ done < Len(tracks)
    /\ \E b \in Consulted(tracks[done + 1], catalog, client, match_cache) :
          ApplyStep(TrackStep(tracks[done + 1], catalog, client, b, match_cache))
    /\ done' = done + 1
    /\ catalog' = IF catalog = <<>> THEN catalog ELSE Tail(catalog)
    /\ UNCHANGED <<pc, client_arg, api_key_set, client, tracks, llm_vars,
                   pure_vars>>

\* one iteration of the loop of lines 49-101
ReconcileTrack ==
    /\ pc = "running"
    /\ done < Len(tracks)
    /\ \E b \in Consulted(tracks[done + 1], catalog, client, match_cache) :
          ApplyStep(TrackStep(tracks[done + 1], catalog, client, b, match_cache))
    /\ done' = done + 1
    /\ UNCHANGED <<pc, client_arg, api_key_set, client, tracks, catalog, llm_vars,
                   pure_vars>>

\* lines 103-105: the loop is over and results is returned to the caller; the
\* state with pc = "running" and done = Len(tracks) holds what is returned
ReconcileReturn ==
    /\ pc = "running"
    /\ done = Len(tracks)
    /\ pc' = "idle"
    /\ client_arg' = "None"
    /\ api_key_set' = FALSE
    /\ client' = "None"
    /\ tracks' = <<>>
    /\ catalog' = <<>>
    /\ done' = 0
    /\ results' = <<>>
    /\ llm_calls' = 0
    /\ track_log' = <<>>
    /\ UNCHANGED <<match_cache, llm_vars, pure_vars>>

\* clear_cache()
ClearCache ==
    /\ pc = "idle"
    /\ match_cache # EmptyCache
    /\ match_cache' = EmptyCache
    /\ inv_count' = 0
    /\ key_stats' = [k \in Keys |-> NoStats]
    /\ UNCHANGED <<reconcile_vars, inv, pure_vars>>

Next == ReconcileStart \/ ReconcileTrack \/ ReconcileReturn \/ ClearCache

Spec == Init /\ [][Next]_vars

(***************************************************************************)
(* Direct invocations of llm_fuzzy_match, as the tests make them.          *)
(***************************************************************************)
LlmNames == {N_miss, N_variant, N_medley}

\* the behaviours that make a difference to a direct invocation
ConsultedDirect(name, cache) ==
    IF cache_key(name) \in DOMAIN cache
    THEN {[pending |-> <<>>, steady |-> RespRaise]}
    ELSE Behaviours

\* the statistics of a name after one more invocation with result r
StatsAfter(old, m, r, failing) ==
    [invocations |-> old.invocations + 1,
     api_calls |-> old.api_calls + ApiCalls(r.events),
     first_ret |-> IF old.invocations = 0 THEN r.ret ELSE old.first_ret,
     first_max_retries |-> IF old.invocations = 0 THEN m
                           ELSE old.first_max_retries,
     all_failing |-> old.all_failing /\ (r.cache_hit \/ failing)]

\* the effect of the invocation llm_fuzzy_match(name, c, b, m) = r; answer
\* holds what the client b returned to the last call of the invocation
RecordInvocation(name, c, m, b, r) ==
    /\ match_cache' = r.cache
    /\ inv' = [track_name |-> name, catalog |-> c, max_retries |-> m,
               ret |-> r.ret, events |-> r.events,
               cache_hit |-> r.cache_hit, exhausted |-> r.exhausted,
               answer |-> IF ApiCalls(r.events) = 0 THEN <<>>
                          ELSE <<ResponseAt(b, ApiCalls(r.events) - 1)>>]
    /\ key_stats' = [key_stats EXCEPT ![normalize(name)] =
                        StatsAfter(@, m, r, AlwaysFails(b))]

LlmInvoke ==
    /\ pc = "idle"
    /\ inv_count < MaxInvocations
    /\ \E name \in LlmNames, c \in Catalogs, m \in 0..MaxRetriesArg :
       \E b \in ConsultedDirect(name, match_cache) :
          RecordInvocation(name, c, m, b,
                           llm_fuzzy_match(name, c, b, m, match_cache))
    /\ inv_count' = inv_count + 1
    /\ UNCHANGED <<reconcile_vars, pure_vars>>

NextLLM == LlmInvoke \/ ClearCache

SpecLLM == Init /\ [][NextLLM]_vars

(***************************************************************************)
(* Direct calls of validate_match, as the tests of TestValidateMatch make  *)
(* them and as llm_fuzzy_match makes them on every parsed list element.    *)
(***************************************************************************)
\* raw values of the catalog_id field
RawIds ==
    {JStr(Id1), JStr(<<" ","C","3"," ">>), JStr(<<"C","9">>), JStr(S_None),
     JStr(<<" ","N","o","n","e">>), JStr(<<>>), JNull, JNum(7), JBool(TRUE),
     JList(<<>>), JList(<<JStr(Id1)>>)}

\* raw values of the confidence field
RawConfidences ==
    {JStr(S_Exact), JStr(S_High), JStr(S_Review), JStr(S_None),
     JStr(<<" ","H","i","g","h"," ">>), JStr(<<"h","i","g","h">>),
     JStr(<<"M","a","y","b","e">>), JStr(<<>>), JNull, JNum(1),
     JList(<<JStr(S_High)>>)}

\* the pairs of one optional field
FieldPairs(key, values) == {<<>>} \cup {<<[k |-> key, v |-> v]>> : v \in values}

\* mappings with any subset of the two fields
RawDicts ==
    {JDict(i \o c) : i \in FieldPairs(K_catalog_id, RawIds),
                     c \in FieldPairs(K_confidence, RawConfidences)}

\* list elements that are not mappings
RawNonDicts == {JStr(<<"x">>), JNull, JNum(3), JBool(FALSE), JList(<<>>)}

RawMatches == RawDicts \cup RawNonDicts

KnownIdSets == {{}, {Id1}, {Id1, Id3}, {Id3, <<"7">>}}

InitValidate ==
    /\ ModuleInit
    /\ \E m \in RawMatches, ids \in KnownIdSets :
          validate_call = [match |-> m, known_catalog_ids |-> ids, result |-> <<>>]
    /\ deterministic_call = NoDeterministicCall
    /\ normalize_call = NoNormalizeCall
    /\ OthersIdle

\* validate_match(match, known_catalog_ids), then validate_match on the dict
\* it returned; there is nothing to go on with when the first call raised
ValidateCall ==
    /\ Len(validate_call.result) < 2
    /\ validate_call.result # <<>> => ~IsRaised(validate_call.result[1])
    /\ validate_call' = [validate_call EXCEPT !.result =
           Append(@, validate_match(IF @ = <<>> THEN validate_call.match
                                    ELSE AsMatch(@[1]),
                                    validate_call.known_catalog_ids))]
    /\ UNCHANGED <<match_cache, reconcile_vars, llm_vars, deterministic_call,
                   normalize_call, backoff_call, parse_call, tour_call>>

SpecValidate == InitValidate /\ [][ValidateCall]_vars

(***************************************************************************)
(* Direct calls of deterministic_match, as TestDeterministicMatch makes    *)
(* them.                                                                   *)
(***************************************************************************)
\* the strings of at most n characters over a set of characters
Strings(chars, n) == UNION {[1..k -> chars] : k \in 0..n}

NameChars == {"a", "B", " ", "(", ")"}
TrackNames == Strings(NameChars, MaxNameLen)

\* "b", "b()", "a b", " a"
Titles == {<<"b">>, <<"b","(",")">>, <<"a"," ","b">>, <<" ","a">>}
EntryIds == <<Id1, Id2, Id3>>

\* catalogs whose entries have distinct ids
TitleCatalogs ==
    {[i \in 1..n |-> Entry(EntryIds[i], t[i])] :
        n \in 0..MaxCatalogLen, t \in [1..MaxCatalogLen -> Titles]}

InitDeterministic ==
    /\ ModuleInit
    /\ validate_call = NoValidateCall
    /\ \E name \in TrackNames, c \in TitleCatalogs :
          deterministic_call = [track_name |-> name, catalog |-> c, result |-> <<>>]
    /\ normalize_call = NoNormalizeCall
    /\ OthersIdle

\* deterministic_match(track_name, catalog)
DeterministicCall ==
    /\ deterministic_call.result = <<>>
    /\ deterministic_call' = [deterministic_call EXCEPT !.result =
           <<deterministic_match(deterministic_call.track_name,
                                 deterministic_call.catalog)>>]
    /\ UNCHANGED <<match_cache, reconcile_vars, llm_vars, validate_call,
                   normalize_call, backoff_call, parse_call, tour_call>>

SpecDeterministic == InitDeterministic /\ [][DeterministicCall]_vars

(***************************************************************************)
(* Direct calls of normalize, as TestNormalize makes them, and of          *)
(* normalize on what it returned.                                          *)
(***************************************************************************)
TextChars == {"a", "B", " ", "\t", "\n", "(", ")"}
Texts == Strings(TextChars, MaxTextLen)

InitNormalize ==
    /\ ModuleInit
    /\ validate_call = NoValidateCall
    /\ deterministic_call = NoDeterministicCall
    /\ \E t \in Texts : normalize_call = [text |-> t, results |-> <<>>]
    /\ OthersIdle

\* normalize(text), then normalize of the string that call returned
NormalizeCall ==
    /\ Len(normalize_call.results) < 2
    /\ normalize_call' = [normalize_call EXCEPT !.results =
           Append(@, normalize(IF @ = <<>> THEN normalize_call.text
                               ELSE @[Len(@)]))]
    /\ UNCHANGED <<match_cache, reconcile_vars, llm_vars, validate_call,
                   deterministic_call, backoff_call, parse_call, tour_call>>

SpecNormalize == InitNormalize /\ [][NormalizeCall]_vars

(***************************************************************************)
(* _backoff_sleep (src/llm_matching.py), called directly.  Times are in    *)
(* milliseconds; jitter is the value random.uniform(0, 1) returned.        *)
(***************************************************************************)
RECURSIVE Pow(_, _)
Pow(b, n) == IF n = 0 THEN 1 ELSE b * Pow(b, n - 1)

\* variant: the delay is not capped
backoff_delayNoCap(attempt, jitter) ==
    Pow(BACKOFF_BASE, attempt) * 1000 + jitter

\* delay = min(BACKOFF_BASE ** attempt + random.uniform(0, 1), BACKOFF_MAX)
backoff_delay(attempt, jitter) ==
    IF Pow(BACKOFF_BASE, attempt) * 1000 + jitter <= BACKOFF_MAX * 1000
    THEN Pow(BACKOFF_BASE, attempt) * 1000 + jitter
    ELSE BACKOFF_MAX * 1000

\* values of random.uniform(0, 1), both ends included
Jitters == {0, 100, 200, 300, 400, 500, 600, 700, 800, 900, 1000}

InitBackoff ==
    /\ ModuleInit
    /\ validate_call = NoValidateCall
    /\ deterministic_call = NoDeterministicCall
    /\ normalize_call = NoNormalizeCall
    /\ \E a \in 0..MaxAttempt, j \in Jitters :
          backoff_call = [attempt |-> a, jitter |-> j, slept |-> <<>>]
    /\ parse_call = NoParseCall
    /\ tour_call = NoTourCall

\* _backoff_sleep(attempt): time.sleep(delay)
BackoffSleep ==
    /\ backoff_call.slept = <<>>
    /\ backoff_call' = [backoff_call EXCEPT !.slept =
           <<backoff_delay(backoff_call.attempt, backoff_call.jitter)>>]
    /\ UNCHANGED <<match_cache, reconcile_vars, llm_vars, validate_call,
                   deterministic_call, normalize_call, parse_call, tour_call>>

SpecBackoff == InitBackoff /\ [][BackoffSleep]_vars

(***************************************************************************)
(* Ingestion (src/ingestion.py): _validate_tour_data on the JSON value     *)
(* that was fetched, then flatten_setlists on data that passed.  The       *)
(* outcome of the validation is "ok", "ValueError" or "TypeError".         *)
(***************************************************************************)
K_shows == <<"s","h","o","w","s">>
\* ("date", "venue", "city", "setlist")
ShowKeys == << <<"d","a","t","e">>, <<"v","e","n","u","e">>, <<"c","i","t","y">>,
              <<"s","e","t","l","i","s","t">> >>

\* Python's `key in v` for a string key: "yes", "no", or "TypeError" when v
\* is no container
KeyIn(key, v) ==
    CASE v.t = "dict" -> IF HasKey(v, key) THEN "yes" ELSE "no"
      [] v.t = "list" ->
            IF \E i \in 1..Len(v.items) :
                  v.items[i].t = "str" /\ v.items[i].s = key
            THEN "yes" ELSE "no"
      [] v.t = "str" ->
            IF \E k \in 0..(Len(v.s) - Len(key)) :
                  SubSeq(v.s, k + 1, k + Len(key)) = key
            THEN "yes" ELSE "no"
      [] OTHER -> "TypeError"

\* lines 70-76 for one show
ShowCheck(show) ==
    IF \E k \in 1..4 : KeyIn(ShowKeys[k], show) = "TypeError" THEN "TypeError"
    ELSE IF \E k \in 1..4 : KeyIn(ShowKeys[k], show) = "no" THEN "ValueError"
    ELSE IF show.t # "dict" THEN "TypeError"
    ELSE IF Lookup(show, ShowKeys[4]).t # "list" THEN "ValueError"
    ELSE "ok"

\* lines 66-76 on the value of data["data"]
ShowsCheck(d) ==
    IF KeyIn(K_shows, d) = "TypeError" THEN "TypeError"
    ELSE IF KeyIn(K_shows, d) = "no" THEN "ValueError"
    ELSE IF d.t # "dict" THEN "TypeError"
    ELSE IF Lookup(d, K_shows).t # "list" THEN "ValueError"
    ELSE IF Lookup(d, K_shows).items = <<>> THEN "ValueError"
    ELSE LET shows == Lookup(d, K_shows).items
             bad == {i \in 1..Len(shows) : ShowCheck(shows[i]) # "ok"}
         IN  IF bad = {} THEN "ok"
             ELSE ShowCheck(shows[CHOOSE i \in bad : \A j \in bad : i <= j])

validate_tour_data(data) ==
    IF data.t # "dict" THEN "ValueError"
    ELSE IF ~HasKey(data, K_data) THEN "ValueError"
    ELSE ShowsCheck(Lookup(data, K_data))

\* the tracks that the inner loop of flatten_setlists appends for one show
ShowTracks(show) ==
    [j \in 1..Len(Lookup(show, ShowKeys[4]).items) |->
        [show_date |-> Lookup(show, ShowKeys[1]),
         venue_name |-> Lookup(show, ShowKeys[2]),
         city |-> Lookup(show, ShowKeys[3]),
         setlist_track_name |-> Lookup(show, ShowKeys[4]).items[j]]]

\* variant: the shows are taken last to first
RECURSIVE FlattenFromReversed(_, _)
FlattenFromReversed(shows, i) ==
    IF i > Len(shows) THEN <<>>
    ELSE FlattenFromReversed(shows, i + 1) \o ShowTracks(shows[i])

\* the outer loop of flatten_setlists from show number i on
RECURSIVE FlattenFrom(_, _)
FlattenFrom(shows, i) ==
    IF i > Len(shows) THEN <<>>
    ELSE ShowTracks(shows[i]) \o FlattenFrom(shows, i + 1)

flatten_setlists(tour_data) ==
    FlattenFrom(Lookup(Lookup(tour_data, K_data), K_shows).items, 1)

\* a show as a JSON object with the given values
Show(date, venue, city, setlist) ==
    JDict(<<[k |-> ShowKeys[1], v |-> date], [k |-> ShowKeys[2], v |-> venue],
            [k |-> ShowKeys[3], v |-> city], [k |-> ShowKeys[4], v |-> setlist]>>)

\* shows as the tests have them, with every setlist of up to MaxSetlist names
GoodShows ==
    {Show(JStr(d), JStr(<<"V">>), JStr(<<"C">>), JList(l)) :
        d \in {<<"1">>, <<"2">>},
        l \in UNION {[1..n -> {JStr(<<"a">>), JStr(<<"b">>)}] : n \in 0..MaxSetlist}}

\* values in the place of a show that lack a part of the structure
OddShows ==
    {JNum(1), JStr(<<"x">>),
     JList(<<JStr(ShowKeys[1]), JStr(ShowKeys[2]), JStr(ShowKeys[3]),
             JStr(ShowKeys[4])>>),
     JDict(<<[k |-> ShowKeys[1], v |-> JStr(<<"1">>)],
             [k |-> ShowKeys[2], v |-> JStr(<<"V">>)],
             [k |-> ShowKeys[3], v |-> JStr(<<"C">>)]>>),
     Show(JStr(<<"1">>), JStr(<<"V">>), JStr(<<"C">>), JStr(<<"a">>)),
     Show(JStr(<<"1">>), JStr(<<"V">>), JStr(<<"C">>), JList(<<JNum(1)>>)),
     Show(JNull, JStr(<<"V">>), JStr(<<"C">>), JList(<<JStr(<<"a">>)>>))}

\* {"data": v}
TourData(v) == JDict(<<[k |-> K_data, v |-> v]>>)

\* what the API or the local file may hold
TourInputs ==
    {TourData(JDict(<<[k |-> K_shows, v |-> JList(l)]>>)) :
        l \in UNION {[1..n -> GoodShows \cup OddShows] : n \in 0..MaxShows}}
    \cup {JStr(<<"x">>), JList(<<>>),
          JDict(<<[k |-> <<"s">>, v |-> JStr(<<"o","k">>)]>>),
          TourData(JNum(5)), TourData(JNull), TourData(JStr(K_shows)),
          TourData(JList(<<JStr(K_shows)>>)), TourData(JDict(<<>>)),
          TourData(JDict(<<[k |-> K_shows, v |-> JNull]>>)),
          TourData(JDict(<<[k |-> K_shows, v |-> JStr(<<"x">>)]>>))}

InitTour ==
    /\ ModuleInit
    /\ validate_call = NoValidateCall
    /\ deterministic_call = NoDeterministicCall
    /\ normalize_call = NoNormalizeCall
    /\ backoff_call = NoBackoffCall
    /\ parse_call = NoParseCall
    /\ \E d \in TourInputs :
          tour_call = [data |-> d, validation |-> "none", flattened |-> FALSE,
                       tracks |-> <<>>]

\* _validate_tour_data(data) at the end of fetch_tour_data
ValidateTourData ==
    /\ tour_call.validation = "none"
    /\ tour_call' = [tour_call EXCEPT !.validation =
                        validate_tour_data(tour_call.data)]
    /\ UNCHANGED <<match_cache, reconcile_vars, llm_vars, validate_call,
                   deterministic_call, normalize_call, backoff_call, parse_call>>

\* flatten_setlists(tour_data) on the data fetch_tour_data returned
FlattenSetlists ==
    /\ tour_call.validation = "ok"
    /\ ~tour_call.flattened
    /\ tour_call' = [tour_call EXCEPT !.flattened = TRUE,
                        !.tracks = flatten_setlists(tour_call.data)]
    /\ UNCHANGED <<match_cache, reconcile_vars, llm_vars, validate_call,
                   deterministic_call, normalize_call, backoff_call, parse_call>>

NextTour == ValidateTourData \/ FlattenSetlists

SpecTour == InitTour /\ [][NextTour]_vars

(***************************************************************************)
(* Direct calls of _parse_llm_response on a response text, as              *)
(* TestParseLLMResponse makes them.  A text is RespInvalidJson or          *)
(* RespJson(v), the text that json.loads turns into v.                     *)
(***************************************************************************)
\* _parse_llm_response(raw): json.loads raises on text that is not JSON
ParseText(raw) ==
    IF raw.kind # "json" THEN Raised
    ELSE [items |-> parse_llm_response(raw.value)]

\* JSON objects of up to MaxPairs keys
ParseDicts ==
    {JDict([i \in 1..n |-> [k |-> ks[i], v |-> vs[i]]]) :
        n \in 0..MaxPairs,
        ks \in {f \in [1..MaxPairs -> {K_matches, K_results, K_data, K_catalog_id,
                                        <<"f","o","o">>}] :
                   \A i, j \in 1..MaxPairs : f[i] = f[j] => i = j},
        vs \in [1..MaxPairs -> {JList(<<>>), JList(<<Match(Id1, S_High)>>),
                                JStr(<<"x">>), JNull}]}

\* response texts
ParseInputs ==
    {RespInvalidJson}
    \cup {RespJson(v) : v \in ParseDicts}
    \cup {RespJson(v) : v \in {JList(<<>>), JList(<<Match(Id1, S_High)>>),
                                JList(<<JStr(<<"x">>)>>), JStr(<<"x">>), JNum(1),
                                JNull, JBool(TRUE)}}

InitParse ==
    /\ ModuleInit
    /\ validate_call = NoValidateCall
    /\ deterministic_call = NoDeterministicCall
    /\ normalize_call = NoNormalizeCall
    /\ backoff_call = NoBackoffCall
    /\ \E r \in ParseInputs : parse_call = [raw |-> r, outcome |-> <<>>]
    /\ tour_call = NoTourCall

ParseCall ==
    /\ parse_call.outcome = <<>>
    /\ parse_call' = [parse_call EXCEPT !.outcome = <<ParseText(parse_call.raw)>>]
    /\ UNCHANGED <<match_cache, reconcile_vars, llm_vars, validate_call,
                   deterministic_call, normalize_call, backoff_call, tour_call>>

SpecParse == InitParse /\ [][ParseCall]_vars

(***************************************************************************)
(* Properties.                                                             *)
(***************************************************************************)
Range(f) == {f[i] : i \in DOMAIN f}

\* the rows that track number i of the running reconcile call contributed
RowsOf(i) ==
    SubSeq(results, track_log[i].first_row,
           track_log[i].first_row + track_log[i].rows - 1)

\* the (catalog_id, confidence) pairs of a sequence of rows
RowMatches(rows) ==
    [j \in 1..Len(rows) |->
        MatchCandidate(rows[j].matched_catalog_id, rows[j].match_confidence)]

\* a candidate that is well formed against the ids of a catalog
WellFormed(m, cat) ==
    /\ m.catalog_id = S_None \/ m.catalog_id \in CatalogIds(cat)
    /\ m.confidence \in VALID_CONFIDENCE

\* number of events of one kind in an event sequence
CountOp(events, op) == Cardinality({i \in 1..Len(events) : events[i].op = op})

\* the direct invocation recorded in inv happened and missed the cache
Missed == inv.track_name # <<>> /\ ~inv.cache_hit

\* C1: every row of reconcile has matched_catalog_id "None" or an id of the
\* catalog supplied to that call, and match_confidence among the four
\* recognized values, also for rows built from entries already in the cache.
C1_RowsWithinCatalog ==
    \A i \in 1..Len(results) :
        WellFormed(MatchCandidate(results[i].matched_catalog_id,
                                  results[i].match_confidence), catalog)

\* C2 as stated: two invocations with the same normalized name issue at most
\* one external call in total and return identical sequences.
C2_AtMostOneCall ==
    \A k \in Keys :
        key_stats[k].invocations >= 2 =>
            /\ key_stats[k].api_calls <= 1
            /\ normalize(inv.track_name) = k => inv.ret = key_stats[k].first_ret

\* C2 amended: of two invocations with the same normalized name only the first
\* issues external calls, at most max_retries + 1 of them (its own
\* max_retries), the later one issues none, and both return identical
\* sequences.
C2_OnlyFirstInvocationCalls ==
    \A k \in Keys :
        key_stats[k].invocations >= 2 =>
            /\ key_stats[k].api_calls <= key_stats[k].first_max_retries + 1
            /\ normalize(inv.track_name) = k =>
                  /\ ApiCalls(inv.events) = 0
                  /\ inv.ret = key_stats[k].first_ret

\* a second invocation under another raw name, after a first one that retried
C2_Witness ==
    /\ inv.track_name = N_variant
    /\ key_stats[normalize(N_variant)].invocations = 2
    /\ key_stats[normalize(N_variant)].api_calls = 2
    /\ inv.cache_hit
    /\ Len(inv.ret) = 2

\* C3: when all max_retries + 1 attempts of an invocation fail, it returns
\* exactly one entry, with catalog_id "None" and confidence "None".
C3_ExhaustionGivesFallback ==
    (Missed /\ CountOp(inv.events, "failed") = inv.max_retries + 1) =>
        inv.ret = <<MatchCandidate(S_None, S_None)>>

\* an invocation with two retries whose three attempts all failed
C3_Witness ==
    /\ Missed
    /\ inv.max_retries = 2
    /\ CountOp(inv.events, "failed") = 3
    /\ inv.exhausted

\* C4: an invocation that misses the cache issues between 1 and
\* max_retries + 1 external calls, each call after the first directly follows
\* the failure (and backoff) of the previous attempt, no call follows a
\* success, and max_retries = 0 gives exactly one call.
C4_CallsBounded ==
    Missed =>
        LET ev == inv.events
            calls == {i \in 1..Len(ev) : ev[i].op = "create"}
        IN  /\ Cardinality(calls) >= 1
            /\ Cardinality(calls) <= inv.max_retries + 1
            /\ inv.max_retries = 0 => Cardinality(calls) = 1
            /\ \A i \in calls :
                  ev[i].arg > 0 =>
                      \E j \in 1..(i - 1) :
                          /\ ev[j] = Event("failed", ev[i].arg - 1)
                          /\ \A l \in (j + 1)..(i - 1) : ev[l].op = "backoff_sleep"
            /\ \A i \in 1..Len(ev) :
                  ev[i].op = "succeeded" =>
                      \A j \in (i + 1)..Len(ev) : ev[j].op # "create"

\* an invocation that failed once and then succeeded with retries to spare
C4_Witness ==
    /\ Missed
    /\ inv.max_retries = 2
    /\ ApiCalls(inv.events) = 2
    /\ CountOp(inv.events, "succeeded") = 1

\* C5: while the client fails on every call, the external calls issued for
\* one normalized name number at most max_retries + 1, and every invocation
\* after the first returns the cached fallback without an external call.
C5_ExhaustedOncePerName ==
    \A k \in Keys :
        (key_stats[k].all_failing /\ key_stats[k].invocations >= 1) =>
            /\ key_stats[k].api_calls <= key_stats[k].first_max_retries + 1
            /\ (key_stats[k].invocations >= 2 /\ normalize(inv.track_name) = k) =>
                  /\ inv.cache_hit
                  /\ ApiCalls(inv.events) = 0
                  /\ inv.ret = <<MatchCandidate(S_None, S_None)>>

\* a second invocation for a name whose first invocation was exhausted
C5_Witness ==
    /\ key_stats[normalize(N_miss)].all_failing
    /\ key_stats[normalize(N_miss)].invocations = 2
    /\ key_stats[normalize(N_miss)].api_calls
          = key_stats[normalize(N_miss)].first_max_retries + 1
    /\ normalize(inv.track_name) = normalize(N_miss)
    /\ inv.cache_hit

\* C6: every entry returned by llm_fuzzy_match is valid against the ids of the
\* catalog given to that invocation, cache hits included.
C6_ReturnedValidForCatalog ==
    inv.track_name # <<>> =>
        \A i \in 1..Len(inv.ret) : WellFormed(inv.ret[i], inv.catalog)

\* C7: every processed track has contributed at least one row whatever the
\* client did, the loop has gone on to every track, and a non-medley
\* deterministic miss whose retries were exhausted has exactly one None/None
\* row.
C7_EveryTrackGetsARow ==
    /\ Len(track_log) = done
    /\ pc = "running" => done <= Len(tracks)
    /\ \A i \in 1..Len(track_log) :
          /\ track_log[i].rows >= 1
          /\ (/\ ~Contains(tracks[i].setlist_track_name, "/")
              /\ track_log[i].exhausted) =>
                RowMatches(RowsOf(i)) = <<MatchCandidate(S_None, S_None)>>

\* a track processed after one whose retries were exhausted
C7_Witness ==
    /\ pc = "running"
    /\ done = 2
    /\ track_log[1].exhausted
    /\ track_log[1].api_calls = MAX_RETRIES + 1
    /\ tracks[1].setlist_track_name = N_miss
    /\ track_log[2].rows >= 1

\* C8: a track whose name contains "/" never goes through the deterministic
\* matcher: with a client its rows are exactly the candidates llm_fuzzy_match
\* returned, without one it gets exactly one None/None row.
C8_MedleyBypassesDeterministic ==
    \A i \in 1..Len(track_log) :
        Contains(tracks[i].setlist_track_name, "/") =>
            IF client = "None"
            THEN /\ track_log[i].llm_invocations = 0
                 /\ RowMatches(RowsOf(i)) = <<MatchCandidate(S_None, S_None)>>
            ELSE /\ track_log[i].llm_invocations = 1
                 /\ RowMatches(RowsOf(i)) = track_log[i].ret

\* a medley whose name is a catalog title, answered by the LLM with another id
C8_Witness ==
    /\ Len(track_log) >= 1
    /\ tracks[1].setlist_track_name = N_medley
    /\ catalog = CatalogA
    /\ deterministic_match(N_medley, catalog).hit
    /\ client # "None"
    /\ RowMatches(RowsOf(1)) = <<MatchCandidate(Id1, S_High)>>

\* C9: a track without "/" that deterministic_match hits gets exactly one row
\* with that id and "Exact" and causes no llm_fuzzy_match invocation and no
\* external call; llm_fuzzy_match is invoked only for medleys and misses.
C9_DeterministicHitStops ==
    \A i \in 1..Len(track_log) :
        LET name == tracks[i].setlist_track_name
            det == deterministic_match(name, catalog)
        IN  /\ (~Contains(name, "/") /\ det.hit) =>
                  /\ RowMatches(RowsOf(i))
                        = <<MatchCandidate(det.catalog_id, S_Exact)>>
                  /\ track_log[i].llm_invocations = 0
                  /\ track_log[i].api_calls = 0
            /\ track_log[i].llm_invocations > 0 =>
                  Contains(name, "/") \/ ~det.hit

\* a suffix-stripped hit next to a miss that went to the LLM
C9_Witness ==
    /\ Len(track_log) = 2
    /\ client # "None"
    /\ tracks[1].setlist_track_name = N_suffix
    /\ RowMatches(RowsOf(1)) = <<MatchCandidate(Id1, S_Exact)>>
    /\ track_log[2].llm_invocations = 1
    /\ track_log[2].api_calls >= 1

\* C10: reconcile called without a client builds none: no external call is
\* made and every track gets exactly one row, None/None for medleys and
\* deterministic misses, whatever the environment holds.
C10_NoClientNoCalls ==
    (pc = "running" /\ client_arg = "None") =>
        /\ client = "None"
        /\ \A i \in 1..Len(track_log) :
              LET name == tracks[i].setlist_track_name
              IN  /\ track_log[i].api_calls = 0
                  /\ track_log[i].llm_invocations = 0
                  /\ track_log[i].rows = 1
                  /\ (Contains(name, "/") \/ ~deterministic_match(name, catalog).hit)
                        => RowMatches(RowsOf(i))
                              = <<MatchCandidate(S_None, S_None)>>

\* the rows of a sequence all carry the show and name fields of a track
RowsOfTrack(rows, track) ==
    \A j \in 1..Len(rows) :
        /\ rows[j].show_date = track.show_date
        /\ rows[j].venue_name = track.venue_name
        /\ rows[j].setlist_track_name = track.setlist_track_name

\* C11: the output keeps input order: the rows of the processed tracks follow
\* each other in track order without gaps, the rows of one track are
\* contiguous and carry that track's show_date, venue_name and
\* setlist_track_name, and the rows of an LLM-matched track are the candidates
\* llm_fuzzy_match returned, one row each, in the returned order.
C11_RowsInTrackOrder ==
    /\ Len(track_log) = done
    /\ \A i \in 1..Len(track_log) :
          /\ track_log[i].first_row
                = IF i = 1 THEN 1
                  ELSE track_log[i - 1].first_row + track_log[i - 1].rows
          /\ track_log[i].first_row + track_log[i].rows - 1 <= Len(results)
          /\ i = Len(track_log) =>
                track_log[i].first_row + track_log[i].rows - 1 = Len(results)
          /\ RowsOfTrack(RowsOf(i), tracks[i])
          /\ track_log[i].llm_invocations > 0 =>
                RowMatches(RowsOf(i)) = track_log[i].ret
    /\ Len(track_log) = 0 => results = <<>>

\* a two-candidate LLM answer for the first track, then a track of another show
C11_Witness ==
    /\ pc = "running"
    /\ Len(track_log) = 2
    /\ tracks[1].setlist_track_name = N_miss
    /\ tracks[2].setlist_track_name = N_variant
    /\ track_log[1].rows = 2
    /\ track_log[1].api_calls >= 1
    /\ results[1].matched_catalog_id = Id2
    /\ results[2].matched_catalog_id = S_None
    /\ results[3].show_date = "d2"

\* C12: in every row matched_catalog_title is the title of the first catalog
\* entry whose catalog_id is the row's matched_catalog_id, and is empty when
\* that id is "None"; the catalogs here have non-empty titles, so a row with
\* another id than "None" has a non-empty title.
C12_TitleOfMatchedEntry ==
    \A i \in 1..Len(results) :
        LET id == results[i].matched_catalog_id
            title == results[i].matched_catalog_title
        IN  /\ id = S_None => title = <<>>
            /\ id # S_None =>
                  /\ title # <<>>
                  /\ \E j \in 1..Len(catalog) :
                        /\ catalog[j].catalog_id = id
                        /\ catalog[j].title = title
                        /\ \A l \in 1..(j - 1) : catalog[l].catalog_id # id

\* the direct call of validate_match was made on a mapping
ValidatedDict == validate_call.result # <<>> /\ validate_call.match.t = "dict"

\* str(value).strip() of a field that is present in the mapping
TrimmedRaw(match, key) == Strip(PyStr(Lookup(match, key)))

\* C13: when the trimmed raw catalog_id is neither "None" nor a known id, the
\* result of validate_match is exactly None/None, whatever the raw confidence
\* is (recognized, unrecognized or absent).
C13_UnknownIdGivesNone ==
    (ValidatedDict /\ HasKey(validate_call.match, K_catalog_id)) =>
        LET id == TrimmedRaw(validate_call.match, K_catalog_id)
        IN  (id # S_None /\ id \notin validate_call.known_catalog_ids) =>
                validate_call.result[1] = MatchCandidate(S_None, S_None)

\* an unknown id that came with the recognized confidence "High"
C13_Witness ==
    /\ ValidatedDict
    /\ validate_call.match
          = JDict(<<[k |-> K_catalog_id, v |-> JStr(<<"C","9">>)],
                    [k |-> K_confidence, v |-> JStr(S_High)]>>)
    /\ validate_call.known_catalog_ids = {Id1}
    /\ validate_call.result[1] = MatchCandidate(S_None, S_None)

\* C14: when the trimmed raw catalog_id is "None" or a known id it is returned
\* as it is (trimmed); a trimmed confidence among Exact, High, Review, None is
\* returned as it is and any other one becomes "Review"; an absent field
\* counts as "None".
C14_KnownIdKept ==
    ValidatedDict =>
        LET m == validate_call.match
            id == IF HasKey(m, K_catalog_id) THEN TrimmedRaw(m, K_catalog_id)
                  ELSE S_None
            conf == IF HasKey(m, K_confidence) THEN TrimmedRaw(m, K_confidence)
                    ELSE S_None
            r == validate_call.result[1]
        IN  (id = S_None \/ id \in validate_call.known_catalog_ids) =>
                /\ r.catalog_id = id
                /\ conf \in {S_Exact, S_High, S_Review, S_None} => r.confidence = conf
                /\ conf \notin {S_Exact, S_High, S_Review, S_None} =>
                      r.confidence = S_Review

\* a known id with blanks around it and an unrecognized confidence
C14_Witness ==
    /\ ValidatedDict
    /\ validate_call.match
          = JDict(<<[k |-> K_catalog_id, v |-> JStr(<<" ","C","3"," ">>)],
                    [k |-> K_confidence, v |-> JStr(<<"M","a","y","b","e">>)]>>)
    /\ validate_call.known_catalog_ids = {Id1, Id3}
    /\ validate_call.result[1] = MatchCandidate(Id3, S_Review)

\* C15: validate_match raises for no raw match, mapping or not, and returns
\* exactly the fields catalog_id, a known id or "None", and confidence, one of
\* the four recognized values.
C15_ValidateTotal ==
    validate_call.result # <<>> =>
        LET r == validate_call.result[1]
        IN  /\ ~IsRaised(r)
            /\ DOMAIN r = {"catalog_id", "confidence"}
            /\ r.catalog_id \in validate_call.known_catalog_ids \cup {S_None}
            /\ r.confidence \in VALID_CONFIDENCE

\* the track name equals the title raw (case and outer blanks aside) or
\* after normalization
SameTitle(track_name, title) ==
    \/ Strip(Lower(track_name)) = Strip(Lower(title))
    \/ normalize(track_name) = normalize(title)

\* C16: deterministic_match returns, with "Exact", the id of the first entry
\* in catalog order whose title equals the track name raw or normalized, and
\* (None, None) when there is no such entry or the catalog is empty; the id
\* returned is an id of the catalog.
C16_FirstEntryWins ==
    deterministic_call.result # <<>> =>
        LET c == deterministic_call.catalog
            r == deterministic_call.result[1]
            same == {i \in 1..Len(c) :
                        SameTitle(deterministic_call.track_name, c[i].title)}
        IN  IF same = {} THEN ~r.hit
            ELSE /\ r.hit
                 /\ r.catalog_id
                       = c[CHOOSE i \in same : \A j \in same : i <= j].catalog_id
                 /\ r.confidence = S_Exact
                 /\ r.catalog_id \in CatalogIds(c)

\* the first entry matches after normalization, the second one raw
C16_Witness ==
    /\ deterministic_call.track_name = <<"B","(",")">>
    /\ deterministic_call.catalog
          = <<Entry(Id1, <<"b">>), Entry(Id2, <<"b","(",")">>)>>
    /\ deterministic_call.result
          = <<[hit |-> TRUE, catalog_id |-> Id1, confidence |-> S_Exact]>>

\* C17: whenever deterministic_match returns the id of an entry, the track
\* name and the title of that entry have the same normalized form, also when
\* the raw comparison made the hit; a name whose normalized form differs from
\* that of every title (a part of a title, say) gets no match.
C17_HitMeansSameNormalized ==
    deterministic_call.result # <<>> =>
        LET c == deterministic_call.catalog
            r == deterministic_call.result[1]
            n == normalize(deterministic_call.track_name)
        IN  /\ r.hit =>
                  \A i \in 1..Len(c) :
                      c[i].catalog_id = r.catalog_id => normalize(c[i].title) = n
            /\ (\A i \in 1..Len(c) : normalize(c[i].title) # n) => ~r.hit

\* a raw hit on a title with parentheses, after an entry that the name is
\* only a part of
C17_Witness ==
    /\ deterministic_call.track_name = <<"B","(",")">>
    /\ deterministic_call.catalog
          = <<Entry(Id1, <<"a"," ","b">>), Entry(Id2, <<"b","(",")">>)>>
    /\ deterministic_call.result
          = <<[hit |-> TRUE, catalog_id |-> Id2, confidence |-> S_Exact]>>

\* C18: normalize is idempotent: normalize applied to what normalize returned
\* gives the same string, for every text (any parentheses, any whitespace).
C18_NormalizeIdempotent ==
    Len(normalize_call.results) = 2 =>
        normalize_call.results[2] = normalize_call.results[1]

\* C19: what normalize returns is lowercase and trimmed, has no "(" with a
\* ")" after it and no two whitespace characters in a row; normalize("") is
\* "".
C19_NormalizedShape ==
    normalize_call.results # <<>> =>
        LET n == normalize_call.results[1]
        IN  /\ Lower(n) = n
            /\ Strip(n) = n
            /\ \A i \in 1..Len(n) : \A j \in (i + 1)..Len(n) :
                  ~(n[i] = "(" /\ n[j] = ")")
            /\ \A i \in 1..(Len(n) - 1) : ~(IsSpace(n[i]) /\ IsSpace(n[i + 1]))
            /\ normalize_call.text = <<>> => n = <<>>

\* C20: every external call of an invocation, retries included, comes
\* directly after a rate-limit pause of the configured interval.
C20_RateLimitBeforeEachCall ==
    (inv.track_name # <<>> /\ RATE_LIMIT_DELAY > 0) =>
        \A i \in 1..Len(inv.events) :
            inv.events[i].op = "create" =>
                /\ i > 1
                /\ inv.events[i - 1] = Event("rate_limit_sleep", RATE_LIMIT_DELAY)

\* C21 as stated: the delay before retry number attempt + 1 is 2 s doubled
\* attempt times, plus a jitter of at most 1 s, and at most the cap of 30 s.
C21_DelayFromTwoSeconds ==
    backoff_call.slept # <<>> =>
        LET d == backoff_call.slept[1]
            start == BACKOFF_BASE * Pow(BACKOFF_BASE, backoff_call.attempt) * 1000
        IN  /\ d <= BACKOFF_MAX * 1000
            /\ d < BACKOFF_MAX * 1000 => (start <= d /\ d <= start + 1000)

\* C21 amended: the delay before retry number attempt + 1 is 1 s doubled
\* attempt times (1 s, 2 s, 4 s, ..), plus a jitter of at most 1 s, cut down
\* to the cap of 30 s when it would exceed it; it never exceeds the cap.
C21_DelayFromOneSecond ==
    backoff_call.slept # <<>> =>
        LET d == backoff_call.slept[1]
            start == Pow(BACKOFF_BASE, backoff_call.attempt) * 1000
        IN  /\ d <= BACKOFF_MAX * 1000
            /\ d < BACKOFF_MAX * 1000 => d = start + backoff_call.jitter
            /\ d = BACKOFF_MAX * 1000 => start + backoff_call.jitter >= d
            /\ backoff_call.jitter <= 1000
            /\ backoff_call.attempt = 0 => (1000 <= d /\ d <= 2000)

\* the sleep before the first retry, with no jitter: one second
C21_Witness ==
    /\ backoff_call.attempt = 0
    /\ backoff_call.jitter = 0
    /\ backoff_call.slept = <<1000>>

\* C22: reconcile invokes llm_fuzzy_match exactly once for a track that
\* reaches stage 2 with a client at hand (a medley or a deterministic miss)
\* and not at all for any other track, also when the result is the None/None
\* fallback; llm_calls counts these invocations.
C22_OneInvocationPerStageTwoTrack ==
    /\ \A i \in 1..Len(track_log) :
          LET name == tracks[i].setlist_track_name
          IN  track_log[i].llm_invocations
                = IF /\ client # "None"
                     /\ \/ Contains(name, "/")
                        \/ ~deterministic_match(name, catalog).hit
                  THEN 1 ELSE 0
    /\ llm_calls = Cardinality({i \in 1..Len(track_log) :
                                  track_log[i].llm_invocations > 0})

\* a deterministic miss whose invocation ran out of retries and gave the
\* fallback, followed by the next track
C22_Witness ==
    /\ pc = "running"
    /\ done = 2
    /\ tracks[1].setlist_track_name = N_miss
    /\ track_log[1].exhausted
    /\ track_log[1].ret = Fallback
    /\ track_log[1].llm_invocations = 1
    /\ track_log[1].api_calls = MAX_RETRIES + 1
    /\ llm_calls >= 1

\* C23: while a reconcile call runs, with the calls of deterministic_match,
\* llm_fuzzy_match and validate_match it makes, the catalog and the track
\* list stay as they were passed in: same entries, same fields and values,
\* same order.
C23_InputsUnchanged ==
    [][(pc = "running" /\ pc' = "running") =>
          (tracks' = tracks /\ catalog' = catalog)]_vars

\* a call that went through both stages: a deterministic hit, then a miss
\* that the LLM answered, with the inputs as they were passed
C23_Witness ==
    /\ pc = "running"
    /\ done = 2
    /\ catalog = CatalogA
    /\ tracks = <<Track("d1", "v1", N_suffix), Track("d2", "v2", N_variant)>>
    /\ track_log[1].route = "deterministic"
    /\ track_log[2].route = "llm"
    /\ track_log[2].api_calls = 1

\* the shows of tour data that passed the validation, and a show's setlist
ShowsOf(data) == Lookup(Lookup(data, K_data), K_shows).items
SetlistOf(show) == Lookup(show, ShowKeys[4]).items

\* the number of track names in the setlists of the shows before show i
RECURSIVE TracksBefore(_, _)
TracksBefore(shows, i) ==
    IF i <= 1 THEN 0
    ELSE TracksBefore(shows, i - 1) + Len(SetlistOf(shows[i - 1]))

\* what flatten_setlists returned for the validated tour data
FlattenedAsListed ==
    tour_call.flattened =>
        LET shows == ShowsOf(tour_call.data)
        IN  /\ Len(tour_call.tracks) = TracksBefore(shows, Len(shows) + 1)
            /\ \A i \in 1..Len(shows) : \A j \in 1..Len(SetlistOf(shows[i])) :
                  tour_call.tracks[TracksBefore(shows, i) + j]
                    = [show_date |-> Lookup(shows[i], ShowKeys[1]),
                       venue_name |-> Lookup(shows[i], ShowKeys[2]),
                       city |-> Lookup(shows[i], ShowKeys[3]),
                       setlist_track_name |-> SetlistOf(shows[i])[j]]

\* C24: flatten_setlists gives one track per show and track name, in show
\* order and then setlist order, each with its show's date, venue and city;
\* their number is the sum of the setlist lengths; the tour data stays as it
\* was.
C24_FlattenInShowOrder ==
    /\ []FlattenedAsListed
    /\ [][tour_call'.data = tour_call.data]_vars

\* two shows on different dates, with two names and one name
C24_Witness ==
    /\ tour_call.flattened
    /\ ShowsOf(tour_call.data)
          = <<Show(JStr(<<"1">>), JStr(<<"V">>), JStr(<<"C">>),
                   JList(<<JStr(<<"a">>), JStr(<<"b">>)>>)),
              Show(JStr(<<"2">>), JStr(<<"V">>), JStr(<<"C">>),
                   JList(<<JStr(<<"b">>)>>))>>
    /\ Len(tour_call.tracks) = 3
    /\ tour_call.tracks[3].show_date = JStr(<<"2">>)
    /\ tour_call.tracks[2].setlist_track_name = JStr(<<"b">>)

\* tour data with the structure the core relies on
WellFormedTour(data) ==
    /\ data.t = "dict"
    /\ HasKey(data, K_data)
    /\ Lookup(data, K_data).t = "dict"
    /\ HasKey(Lookup(data, K_data), K_shows)
    /\ Lookup(Lookup(data, K_data), K_shows).t = "list"
    /\ ShowsOf(data) # <<>>
    /\ \A i \in 1..Len(ShowsOf(data)) :
          LET show == ShowsOf(data)[i]
          IN  /\ show.t = "dict"
              /\ \A k \in 1..4 : HasKey(show, ShowKeys[k])
              /\ Lookup(show, ShowKeys[4]).t = "list"
              /\ \A j \in 1..Len(SetlistOf(show)) : SetlistOf(show)[j].t = "str"

\* C25: _validate_tour_data either raises ValueError or its input has the
\* structure the core relies on: a non-empty list of shows, each with a date,
\* a venue, a city and a setlist that is a list of strings; no other error is
\* raised.
C25_ValidatedOrValueError ==
    tour_call.validation # "none" =>
        /\ tour_call.validation \in {"ok", "ValueError"}
        /\ tour_call.validation = "ok" <=> WellFormedTour(tour_call.data)

\* the direct call of _parse_llm_response was made on text that is JSON
ParsedJson == parse_call.outcome # <<>> /\ parse_call.raw.kind = "json"

\* the key is in the mapping with a list as its value
ListUnder(d, key) == HasKey(d, key) /\ Lookup(d, key).t = "list"

\* C26: _parse_llm_response returns a bare list as it is; for a mapping the
\* list under the first of "matches", "results", "data" that has a list;
\* else, when the mapping has "catalog_id", the mapping alone in a list; else
\* the first list value under any key; else the empty list.
C26_ShapesInPriorityOrder ==
    ParsedJson =>
        LET v == parse_call.raw.value
            items == parse_call.outcome[1].items
            any == {i \in 1..Len(v.pairs) : v.pairs[i].v.t = "list"}
        IN  CASE v.t = "list" -> items = v.items
              [] v.t = "dict" ->
                    IF ListUnder(v, K_matches) THEN items = Lookup(v, K_matches).items
                    ELSE IF ListUnder(v, K_results)
                    THEN items = Lookup(v, K_results).items
                    ELSE IF ListUnder(v, K_data) THEN items = Lookup(v, K_data).items
                    ELSE IF HasKey(v, K_catalog_id) THEN items = <<v>>
                    ELSE IF any # {}
                    THEN \E i \in any : /\ \A j \in any : i <= j
                                        /\ items = v.pairs[i].v.items
                    ELSE items = <<>>
              [] OTHER -> items = <<>>

\* a mapping with a list under an arbitrary key in front of "catalog_id": the
\* mapping itself is the single match
C26_Witness ==
    /\ ParsedJson
    /\ parse_call.raw.value
          = JDict(<<[k |-> <<"f","o","o">>, v |-> JList(<<Match(Id1, S_High)>>)],
                    [k |-> K_catalog_id, v |-> JStr(<<"x">>)]>>)
    /\ parse_call.outcome[1].items = <<parse_call.raw.value>>

\* the JSON value holds match data: a non-empty list, or a mapping with
\* "catalog_id" or with a non-empty list under some key
HasMatchData(v) ==
    \/ v.t = "list" /\ v.items # <<>>
    \/ /\ v.t = "dict"
       /\ \/ HasKey(v, K_catalog_id)
          \/ \E i \in 1..Len(v.pairs) :
                v.pairs[i].v.t = "list" /\ v.pairs[i].v.items # <<>>

\* C27: _parse_llm_response raises for no response text, valid JSON or not;
\* it returns the empty list only when the response holds no match data, so
\* a non-empty list under some key gives a non-empty result.
C27_ParseNeverRaises ==
    parse_call.outcome # <<>> =>
        /\ ~IsRaised(parse_call.outcome[1])
        /\ parse_call.outcome[1].items = <<>> => ~HasMatchData(parse_call.raw.value)

(***************************************************************************)
(* C28: when the response of an attempt is valid JSON and parsing it       *)
(* yields no entry, llm_fuzzy_match puts the single no-match entry in its  *)
(* place (catalog_id "None", confidence "None"), counts the attempt as a   *)
(* success (it is the last call, no backoff sleep follows it), stores that *)
(* entry in the cache and returns it; and no invocation returns an empty   *)
(* sequence.                                                               *)
(***************************************************************************)
\* valid JSON in which _parse_llm_response finds no entry
EmptyParse(resp) ==
    resp.kind = "json" /\ parse_llm_response(resp.value) = <<>>

\* the last call of the last invocation was answered that way
Substituted == inv.answer # <<>> /\ EmptyParse(inv.answer[1])

BackoffAfter(events, attempt) ==
    \E i \in 1..Len(events) :
        events[i].op = "backoff_sleep" /\ events[i].arg >= attempt

C28_EmptyParseIsNoMatchSuccess ==
    /\ inv # NoInvocation => inv.ret # <<>>
    /\ Substituted =>
          /\ inv.ret = <<MatchCandidate(S_None, S_None)>>
          /\ ~inv.exhausted
          /\ SubSeq(inv.events, Len(inv.events) - 1, Len(inv.events))
                = <<Event("succeeded", ApiCalls(inv.events) - 1),
                    Event("cache_store", 0)>>
          /\ ~BackoffAfter(inv.events, ApiCalls(inv.events) - 1)
          /\ inv_count > 0 =>
                /\ cache_key(inv.track_name) \in DOMAIN match_cache
                /\ match_cache[cache_key(inv.track_name)] = inv.ret

\* an invocation whose second call got {"foo": "bar"} after a failure
C28_Witness ==
    /\ inv_count > 0
    /\ ApiCalls(inv.events) = 2
    /\ inv.answer = <<R_empty>>
    /\ Substituted
    /\ inv.ret = <<MatchCandidate(S_None, S_None)>>
    /\ match_cache[cache_key(inv.track_name)] = inv.ret

(***************************************************************************)
(* C29: right after an invocation of llm_fuzzy_match returns, whether with *)
(* validated matches, the substituted no-match entry or the fallback after *)
(* exhaustion, the cache maps the key of normalize(track_name) to exactly  *)
(* the returned sequence and holds for every other key what it held        *)
(* before; an entry of the cache is never removed or given another value   *)
(* except by clear_cache.                                                  *)
(***************************************************************************)
\* the step is the return of an invocation
InvocationReturns == inv_count' = inv_count + 1

\* the step is clear_cache
CacheCleared == match_cache' = EmptyCache /\ inv_count' = 0 /\ inv' = inv

StoredAsReturned ==
    LET key == cache_key(inv'.track_name)
    IN  /\ key \in DOMAIN match_cache'
        /\ match_cache'[key] = inv'.ret
        /\ DOMAIN match_cache' = DOMAIN match_cache \cup {key}
        /\ \A k \in DOMAIN match_cache' \ {key} :
               match_cache'[k] = match_cache[k]

EntriesKept ==
    \A k \in DOMAIN match_cache :
        k \in DOMAIN match_cache' /\ match_cache'[k] = match_cache[k]

C29_ResultStoredEntriesKept ==
    [][/\ InvocationReturns => StoredAsReturned
       /\ EntriesKept \/ CacheCleared]_vars

\* the second invocation since the cache was empty is for another key and
\* ends in the fallback, the first one's entry is still there
C29_Witness ==
    /\ inv_count = 2
    /\ inv.exhausted
    /\ ~inv.cache_hit
    /\ Cardinality(DOMAIN match_cache) = 2
    /\ match_cache[cache_key(inv.track_name)] = inv.ret
    /\ \E k \in DOMAIN match_cache :
          k # cache_key(inv.track_name) /\ match_cache[k] # inv.ret

(***************************************************************************)
(* C30: in an invocation of llm_fuzzy_match exactly one backoff sleep lies *)
(* between two consecutive attempts, the one before the first retry with   *)
(* attempt index 0; no backoff sleep follows a successful attempt or the   *)
(* final failed attempt.  As stated, the number of backoff sleeps is the   *)
(* number of external calls minus one in every invocation.                 *)
(***************************************************************************)
Sleeps(events) ==
    Cardinality({i \in 1..Len(events) : events[i].op = "backoff_sleep"})

\* a retry comes right after the sleep for the failed attempt before it
RetryAfterOneSleep(events) ==
    \A i \in 1..Len(events) :
        (events[i].op = "create" /\ events[i].arg > 0) =>
            /\ i > 2
            /\ events[i - 1] = Event("backoff_sleep", events[i].arg - 1)
            /\ events[i - 2] = Event("failed", events[i].arg - 1)

\* a sleep comes right after a failed attempt and right before the next one
SleepBetweenAttempts(events) ==
    \A i \in 1..Len(events) :
        events[i].op = "backoff_sleep" =>
            /\ 1 < i /\ i < Len(events)
            /\ events[i - 1] = Event("failed", events[i].arg)
            /\ events[i + 1] = Event("create", events[i].arg + 1)

\* nothing but the store follows a success or the final failure
NoSleepAtTheEnd(events, max_retries) ==
    \A i \in 1..Len(events) :
        (\/ events[i].op = "succeeded"
         \/ events[i] = Event("failed", max_retries)) =>
            /\ i = Len(events) - 1
            /\ events[i + 1] = Event("cache_store", 0)

BackoffPlacement ==
    /\ RetryAfterOneSleep(inv.events)
    /\ SleepBetweenAttempts(inv.events)
    /\ NoSleepAtTheEnd(inv.events, inv.max_retries)
    /\ inv.max_retries = 0 => Sleeps(inv.events) = 0

C30_SleepsAreCallsMinusOne ==
    /\ BackoffPlacement
    /\ inv # NoInvocation =>
          Sleeps(inv.events) = ApiCalls(inv.events) - 1

(***************************************************************************)
(* C30, amended: the same placement of the sleeps; the number of backoff   *)
(* sleeps is the number of external calls minus one in an invocation that  *)
(* makes a call, and zero in one that makes none (a cache hit).            *)
(***************************************************************************)
C30_SleepsAreCallsMinusOneIfCalled ==
    /\ BackoffPlacement
    /\ ApiCalls(inv.events) > 0 =>
          Sleeps(inv.events) = ApiCalls(inv.events) - 1
    /\ ApiCalls(inv.events) = 0 => Sleeps(inv.events) = 0

\* three failed attempts with the sleeps of index 0 and 1 between them
C30_Witness ==
    /\ inv.max_retries = 2
    /\ inv.exhausted
    /\ ApiCalls(inv.events) = 3
    /\ Sleeps(inv.events) = 2
    /\ \E i, j \in 1..Len(inv.events) :
          /\ i < j
          /\ inv.events[i] = Event("backoff_sleep", 0)
          /\ inv.events[j] = Event("backoff_sleep", 1)

(***************************************************************************)
(* C31: the paths that do not call the external matcher leave the cache as *)
(* it is and do not wait.  An llm_fuzzy_match invocation answered from the *)
(* cache makes no rate-limit pause, no backoff sleep, no external call and *)
(* no store, and returns the stored sequence; in reconcile an iteration    *)
(* that ends with a deterministic hit or, without a client, with the       *)
(* None/None row does not write the cache, and its rows are what they      *)
(* would be with an empty cache.                                           *)
(***************************************************************************)
\* the cache as iteration i of the running reconcile left it
CacheAfter(i) ==
    IF i < Len(track_log) THEN track_log[i + 1].cache_before ELSE match_cache

\* iteration i made no call, no sleep and no store and kept the cache
NothingDone(i) ==
    /\ track_log[i].events = <<>>
    /\ track_log[i].api_calls = 0
    /\ CacheAfter(i) = track_log[i].cache_before

\* the rows of iteration i are those of the same iteration on an empty cache
CacheNotRead(i) ==
    RowsOf(i) = TrackStep(tracks[i], catalog, client,
                          [pending |-> <<>>, steady |-> RespRaise],
                          EmptyCache).rows

C31_NoCallPathsLeaveCacheAlone ==
    \A i \in 1..Len(track_log) :
        LET name == tracks[i].setlist_track_name
            stage_two == \/ Contains(name, "/")
                         \/ ~DetHit(deterministic_match(name, catalog))
            before == track_log[i].cache_before
        IN  /\ (~stage_two \/ client = "None") =>
                  /\ NothingDone(i)
                  /\ track_log[i].llm_invocations = 0
                  /\ track_log[i].rows = 1
                  /\ CacheNotRead(i)
            /\ (stage_two /\ client # "None"
                   /\ cache_key(name) \in DOMAIN before) =>
                  /\ NothingDone(i)
                  /\ track_log[i].ret = before[cache_key(name)]
                  /\ RowMatches(RowsOf(i)) = before[cache_key(name)]

\* a run on a cache that holds the key "b": a deterministic hit, then a miss
\* of stage one that is answered from the cache
C31_Witness ==
    /\ Len(track_log) = 2
    /\ client # "None"
    /\ tracks[1].setlist_track_name = N_suffix
    /\ track_log[1].cache_before # EmptyCache
    /\ track_log[1].route = "deterministic"
    /\ tracks[2].setlist_track_name = N_variant
    /\ cache_key(N_variant) \in DOMAIN track_log[2].cache_before
    /\ track_log[2].llm_invocations = 1
    /\ track_log[2].events = <<>>
    /\ match_cache = track_log[1].cache_before

(***************************************************************************)
(* C32: validate_match is idempotent: given the dict it returned and the   *)
(* same known ids it returns an equal dict; and a match that is already    *)
(* well formed against the known ids (catalog_id "None" or a known id,     *)
(* confidence one of Exact, High, Review, None, no other field) comes back *)
(* as it went in.                                                          *)
(***************************************************************************)
\* the well-formed matches against a set of known ids
WellFormedMatches(known_catalog_ids) ==
    {JDict(<<[k |-> K_catalog_id, v |-> JStr(id)],
             [k |-> K_confidence, v |-> JStr(c)]>>) :
        id \in known_catalog_ids \cup {S_None}, c \in VALID_CONFIDENCE}

C32_ValidateIdempotent ==
    /\ Len(validate_call.result) = 2 =>
          validate_call.result[2] = validate_call.result[1]
    /\ (/\ validate_call.result # <<>>
        /\ validate_call.match
              \in WellFormedMatches(validate_call.known_catalog_ids)) =>
          /\ ~IsRaised(validate_call.result[1])
          /\ AsMatch(validate_call.result[1]) = validate_call.match

\* {" C3 ", "Maybe"} became {C3, Review}, which validate_match gives back
C32_Witness ==
    /\ validate_call.match
          = JDict(<<[k |-> K_catalog_id, v |-> JStr(<<" ","C","3"," ">>)],
                    [k |-> K_confidence, v |-> JStr(<<"M","a","y","b","e">>)]>>)
    /\ validate_call.known_catalog_ids = {Id1, Id3}
    /\ validate_call.result
          = <<MatchCandidate(Id3, S_Review), MatchCandidate(Id3, S_Review)>>
====
